---------------------------- MODULE Spec2Model ----------------------------
(***************************************************************************)
(* The reconciliation (upsert) engine of ai_tanmiya and the two runs that  *)
(* drive it: the scoring run (calculate_scores -> upsert_leaderboard) and  *)
(* the forecast run (predict_future_scores -> upsert_predictions).         *)
(*                                                                         *)
(* The remote store is three collections, each a sequence of records in    *)
(* creation order.  The store assigns the "id" of a record; it knows no    *)
(* upsert, no transaction and no uniqueness constraint.  Every HTTP call   *)
(* is one step; it succeeds ("ok"), fails before the store acted ("fail")  *)
(* or fails after the store acted ("lost": raise_for_status / json() of    *)
(* the response raised, or the response timed out).                        *)
(***************************************************************************)
EXTENDS Integers, Sequences, FiniteSets, TLC

\* ------------------------------------------------------------------ bounds
NRegions == 2
MaxPeriod == 1
MaxRuns == 2
MaxScore == 2
MaxItems == 2
MaxCount == 1
MaxTopics == 2
MaxRetries == 4

Regions == 1..NRegions
Periods == 1..MaxPeriod
Procs == {"a", "b"}
MainProc == "a"

VARIABLES
  Leaderboard,          \* collection "Leaderboard": latest snapshot
  Leaderboard_all,      \* collection "Leaderboard_all": history
  Leaderboard_predict,  \* collection "Leaderboard_predict"
  pc,                   \* per worker: the position of its run
  kind,                 \* per worker: the snapshot collection its run targets
  items,                \* per worker: the batch handed to the upsert
  fetch,                \* per worker: the upsert's fetch: pending, ok, error
  existing_items,       \* per worker: what the upsert's fetch returned
  idx,                  \* per worker: loop index into items (1-based)
  writes,               \* per worker: the write calls its run has issued
  prev,                 \* the run that ended before the last started one
  rerun,                \* the current batch is the batch of that run again
  nruns,                \* runs started so far
  run,                  \* the region loop of a run followed step by step
  minutes,              \* one call of generate_minutes_score
  meetings,             \* the loop over the meeting items of one record
  scorer,               \* one evaluation of the scoring arithmetic
  collect,              \* one run of collect_data_from_tanmiya_backend
  retry                 \* one call of _with_retries

storeVars == <<Leaderboard, Leaderboard_all, Leaderboard_predict, pc, kind,
               items, fetch, existing_items, idx, writes, prev, rerun, nruns>>

vars == <<Leaderboard, Leaderboard_all, Leaderboard_predict, pc, kind, items,
          fetch, existing_items, idx, writes, prev, rerun, nruns, run, minutes,
          meetings, scorer, collect, retry>>

\* ------------------------------------------------------------- sequences
InjectiveSeqs(S) ==
  {s \in UNION {[1..n -> S] : n \in 0..Cardinality(S)} :
     \A i, j \in 1..Len(s) : i # j => s[i] # s[j]}

\* ------------------------------------------------------- the region catalogs
\* The region list of the scoring side (directus_service._load_regions; the
\* same list stands in meeting_service and, commented out, in
\* constants/regions.py): the name at place i has region id i.
REGIONS ==
  <<"Muscat", "Al_Batinah_North", "Musandam", "Al_Buraimi", "ADhahirah",
    "ADakhiliya", "ASharqiyah_North", "Al_Wusta", "Dhofar",
    "Al_Batinah_South", "ASharqiyah_South">>

\* get_region_id: _region_cache.get(name, 0).
get_region_id(name) ==
  IF \E i \in 1..Len(REGIONS) : REGIONS[i] = name
    THEN CHOOSE i \in 1..Len(REGIONS) : REGIONS[i] = name
    ELSE 0

\* The id -> name table of the forecast side (constants/regions.py).
GOVERNORATE_FROM_REGION_ID ==
  <<"Muscat", "Al Batinah North", "Musandam", "Al Buraimi",
    "Al Dhahira North", "Dakhiliyah", "Al Sharqiyah North", "Al Wusta",
    "Dhofar", "Al Batinah South", "Al Sharqiyah South">>

\* --------------------------------------------------------------- records
NoRecord == [id |-> 0]

\* One element of a batch: the fields of reg_result / out that the engine
\* copies into the store.  Rank is the 1-based position after the sort.
Item(rid, region, month, rank) ==
  [Region_id |-> rid, Region |-> region, month |-> month, Rank |-> rank]

\* The store's create: the record gets the next id of its collection.
Created(coll, item) ==
  [id |-> Len(coll) + 1, Region_id |-> item.Region_id, Region |-> item.Region,
   month |-> item.month, Rank |-> item.Rank]

StorePost(coll, item) == Append(coll, Created(coll, item))

\* The store's partial update of the record with this id.
StorePatch(coll, id, item) ==
  [i \in 1..Len(coll) |->
     IF coll[i].id = id
       THEN [id |-> id, Region_id |-> item.Region_id, Region |-> item.Region,
             month |-> item.month, Rank |-> item.Rank]
       ELSE coll[i]]

HasId(coll, id) == \E i \in 1..Len(coll) : coll[i].id = id

\* ------------------------------------------------------- the upsert engine
\* next((e for e in existing_items if e.get("Region_id") == item.get("Region_id")), None)
FindExistingNever(existing, item) == NoRecord

FindExisting(existing, item) ==
  LET hits == {i \in 1..Len(existing) : existing[i].Region_id = item.Region_id}
  IN  IF hits = {} THEN NoRecord
      ELSE existing[CHOOSE i \in hits : \A j \in hits : i <= j]

\* The address of the PATCH: f"/items/<collection>/{existing_item['id']}".
PatchTargetByRegion(existing_item, item) == item.Region_id

PatchTarget(existing_item, item) == existing_item.id

\* The write one incoming record causes on the snapshot collection: the
\* "if existing_items" branch patches a match and creates otherwise, the
\* else branch creates.
SnapshotCallAlwaysPost(existing, item) == [op |-> "POST", id |-> 0]

SnapshotCall(existing, item) ==
  IF existing # <<>> /\ FindExisting(existing, item) # NoRecord
    THEN [op |-> "PATCH", id |-> PatchTarget(FindExisting(existing, item), item)]
    ELSE [op |-> "POST", id |-> 0]

\* Whether the run goes on to the loop that posts to Leaderboard_all: that
\* loop stands inside the else branch ("No Data found") of upsert_leaderboard;
\* upsert_predictions has no history.
AppendsHistory(knd, existing) == knd = "Leaderboard" /\ existing = <<>>

\* Where a failed fetch of the target collection leaves the run: _get logs
\* and re-raises, and the upsert has no handler.
AfterFetchFailureGoOn == "snapshot"

AfterFetchFailure == "failed"

\* Where a failed create/update leaves the run: _post/_patch log and
\* re-raise, the loops have no handler, so the upsert is left; the caller
\* (calculate_scores, predict_future_scores) catches and logs.
AfterWriteFailure == "failed"

\* The history write: always a create.
HistoryWriteUpsert(coll, item) ==
  IF FindExisting(coll, item) # NoRecord
    THEN StorePatch(coll, FindExisting(coll, item).id, item)
    ELSE StorePost(coll, item)

HistoryWrite(coll, item) == StorePost(coll, item)

Collection(knd) ==
  IF knd = "Leaderboard" THEN Leaderboard ELSE Leaderboard_predict

\* The position after the snapshot loop has handled item i - 1.
AfterSnapshot(knd, existing, batch, i) ==
  IF i <= Len(batch) THEN "snapshot"
  ELSE IF AppendsHistory(knd, existing) /\ batch # <<>> THEN "history"
  ELSE "done"

Outcomes == {"ok", "fail", "lost"}

\* "done": the run returned with every call made; "failed": the upsert raised
\* and the caller logged it; "raised": the run's entry point itself raised.
Ended(p) == pc[p] \in {"idle", "done", "failed", "raised"}

\* No region loop is being followed; no call of the minutes scorer.
NoLoop == [month |-> 0, ri |-> 0, order |-> <<>>, results |-> <<>>,
           log |-> <<>>, history |-> <<>>, fetched |-> FALSE]

NoCall ==
  [state |-> "none", in_topic |-> [type |-> "none", val |-> <<>>],
   in_discussions |-> [type |-> "none", val |-> <<>>],
   topic |-> <<>>, discussions |-> <<>>, translated_topic |-> <<>>,
   translated_discussion |-> <<>>, calls |-> <<>>, failed |-> FALSE,
   scores |-> <<>>, result |-> [sum |-> 0, n |-> 1]]

\* No meeting item scored yet; nothing evaluated, collected or retried.
NoMeetings ==
  [state |-> "none", n_items |-> 0, item_scores |-> <<>>,
   meeting_score |-> [sum |-> 0, n |-> 1]]

NoScoring ==
  [state |-> "none", participants |-> <<>>,
   participants_score |-> [sum |-> 0, n |-> 1],
   total_topics |-> 0, transferred_topics |-> 0,
   meeting_score |-> [sum |-> 0, n |-> 1],
   topic_score |-> [sum |-> 0, n |-> 1],
   overall |-> [sum |-> 0, n |-> 1], total_score |-> 0]

NoCollect ==
  [state |-> "none", ri |-> 0, mi |-> 0, body |-> 0,
   summary |-> [posted |-> 0, skipped |-> 0, errors |-> <<>>],
   log |-> <<>>]

NoRetry ==
  [state |-> "none", retries |-> 0, delay |-> 0, attempt |-> 0, calls |-> 0,
   excs |-> <<>>, waits |-> <<>>, result |-> "none"]

\* What is kept of the run that ended before the current one: its target,
\* how it ended and whether its fetch found the target empty.
NoRun == [kind |-> "none", status |-> "none", empty |-> FALSE]

LastRun(p) ==
  IF pc[p] = "idle" THEN prev
  ELSE [kind |-> kind[p], status |-> pc[p],
        empty |-> fetch[p] = "ok" /\ existing_items[p] = <<>>]

\* The batch of the run now starting is the one the run before it was given.
SameBatch(p, knd, batch) ==
  pc[p] \in {"done", "failed"} /\ kind[p] = knd /\ items[p] = batch

\* ------------------------------------------------------------ the scoring run
\* What calculate_scores hands to upsert_leaderboard: one record per region
\* that had data and was scored, in the order of the sort by total_score,
\* Rank = position.  Any order of any subset of the regions is the sort of
\* some scores.
ScoreBatches(month) ==
  {[i \in 1..Len(s) |->
      Item(get_region_id(REGIONS[s[i]]), REGIONS[s[i]], month, i)] :
     s \in InjectiveSeqs(Regions)}

CalculateScores(p) ==
  /\ Ended(p)
  /\ nruns < MaxRuns
  /\ \E month \in Periods : \E batch \in ScoreBatches(month) :
       /\ items' = [items EXCEPT ![p] = batch]
       /\ rerun' = SameBatch(p, "Leaderboard", batch)
  /\ kind' = [kind EXCEPT ![p] = "Leaderboard"]
  /\ pc' = [pc EXCEPT ![p] = "get"]
  /\ fetch' = [fetch EXCEPT ![p] = "pending"]
  /\ existing_items' = [existing_items EXCEPT ![p] = <<>>]
  /\ idx' = [idx EXCEPT ![p] = 1]
  /\ writes' = [writes EXCEPT ![p] = <<>>]
  /\ prev' = LastRun(p)
  /\ nruns' = nruns + 1
  /\ UNCHANGED <<meetings, scorer, collect, retry, run, minutes,
                 Leaderboard, Leaderboard_all, Leaderboard_predict>>

\* existing = await _get("/items/<collection>"); existing.get("data", [])
UpsertGet(p) ==
  /\ pc[p] = "get"
  /\ \/ /\ fetch' = [fetch EXCEPT ![p] = "ok"]
        /\ existing_items' = [existing_items EXCEPT ![p] = Collection(kind[p])]
        /\ pc' = [pc EXCEPT ![p] =
                    AfterSnapshot(kind[p], Collection(kind[p]), items[p], 1)]
     \/ /\ fetch' = [fetch EXCEPT ![p] = "error"]
        /\ existing_items' = existing_items
        /\ pc' = [pc EXCEPT ![p] = AfterFetchFailure]
  /\ UNCHANGED <<meetings, scorer, collect, retry, run, minutes,
                 Leaderboard, Leaderboard_all, Leaderboard_predict, kind,
                 items, idx, writes, prev, rerun, nruns>>

\* One pass of the loop over the batch: one PATCH or POST on the snapshot
\* collection.
UpsertWrite(p) ==
  /\ pc[p] = "snapshot"
  /\ idx[p] <= Len(items[p])
  /\ LET item == items[p][idx[p]]
         call == SnapshotCall(existing_items[p], item)
         coll == Collection(kind[p])
     IN  \E out \in Outcomes :
           /\ (call.op = "PATCH" /\ ~HasId(coll, call.id)) => out = "fail"
           /\ LET after == IF out = "fail" THEN coll
                           ELSE IF call.op = "PATCH"
                                  THEN StorePatch(coll, call.id, item)
                                  ELSE StorePost(coll, item)
              IN  /\ IF kind[p] = "Leaderboard"
                       THEN /\ Leaderboard' = after
                            /\ UNCHANGED Leaderboard_predict
                       ELSE /\ Leaderboard_predict' = after
                            /\ UNCHANGED Leaderboard
           /\ writes' = [writes EXCEPT ![p] = Append(@,
                 [coll |-> kind[p], op |-> call.op, id |-> call.id,
                  i |-> idx[p], out |-> out])]
           /\ IF out = "ok"
                THEN /\ idx' = [idx EXCEPT ![p] =
                                   IF AfterSnapshot(kind[p], existing_items[p],
                                                    items[p], @ + 1) = "history"
                                     THEN 1 ELSE @ + 1]
                     /\ pc' = [pc EXCEPT ![p] = AfterSnapshot(kind[p],
                                   existing_items[p], items[p], idx[p] + 1)]
                ELSE /\ idx' = idx
                     /\ pc' = [pc EXCEPT ![p] = AfterWriteFailure]
  /\ UNCHANGED <<meetings, scorer, collect, retry, run, minutes,
                 Leaderboard_all, kind, items, fetch, existing_items, prev,
                 rerun, nruns>>

\* One pass of the loop "ALWAYS APPEND to Leaderboard_all".
HistoryAppend(p) ==
  /\ pc[p] = "history"
  /\ idx[p] <= Len(items[p])
  /\ \E out \in Outcomes :
       /\ Leaderboard_all' = IF out = "fail" THEN Leaderboard_all
                             ELSE HistoryWrite(Leaderboard_all, items[p][idx[p]])
       /\ writes' = [writes EXCEPT ![p] = Append(@,
             [coll |-> "Leaderboard_all", op |-> "POST", id |-> 0,
              i |-> idx[p], out |-> out])]
       /\ IF out = "ok"
            THEN /\ idx' = [idx EXCEPT ![p] = @ + 1]
                 /\ pc' = [pc EXCEPT ![p] =
                             IF idx[p] + 1 <= Len(items[p]) THEN "history" ELSE "done"]
            ELSE /\ idx' = idx
                 /\ pc' = [pc EXCEPT ![p] = AfterWriteFailure]
  /\ UNCHANGED <<meetings, scorer, collect, retry, run, minutes,
                 Leaderboard, Leaderboard_predict, kind, items, fetch,
                 existing_items, prev, rerun, nruns>>

\* ----------------------------------------------------------- the forecast run
\* regions_map: the Region_ids of the history in order of first appearance.
RegionsMap(hist) == {hist[i].Region_id : i \in 1..Len(hist)}

RecordsOf(hist, rid) == {i \in 1..Len(hist) : hist[i].Region_id = rid}

\* train_and_predict needs a (sample, label) pair: with a single record
\* single_step_sampler returns an empty X and X.shape[2] raises.  With two
\* or more it is the external model's business whether it returns.
ForecastableAll(hist) == RegionsMap(hist)

Forecastable(hist) == {r \in RegionsMap(hist) : Cardinality(RecordsOf(hist, r)) >= 2}

LatestMonth(hist) ==
  CHOOSE m \in {hist[i].month : i \in 1..Len(hist)} :
    \A i \in 1..Len(hist) : hist[i].month <= m

\* What predict_future_scores hands to upsert_predictions: one record per
\* region whose forecast returned, in the order of the sort by (predicted)
\* total_score, Rank = position, month = the month after the latest one.
PredictionBatchesUngrouped(hist) ==
  {[i \in 1..Len(hist) |->
      Item(hist[i].Region_id, GOVERNORATE_FROM_REGION_ID[hist[i].Region_id],
           LatestMonth(hist) + 1, i)]}

PredictionBatches(hist) ==
  {[i \in 1..Len(s) |->
      Item(s[i], GOVERNORATE_FROM_REGION_ID[s[i]], LatestMonth(hist) + 1, i)] :
     s \in UNION {InjectiveSeqs(S) : S \in SUBSET Forecastable(hist)}}

PredictFutureScores(p) ==
  /\ Ended(p)
  /\ nruns < MaxRuns
  /\ kind' = [kind EXCEPT ![p] = "Leaderboard_predict"]
  /\ pc' = [pc EXCEPT ![p] = "get_history"]
  /\ fetch' = [fetch EXCEPT ![p] = "pending"]
  /\ existing_items' = [existing_items EXCEPT ![p] = <<>>]
  /\ idx' = [idx EXCEPT ![p] = 1]
  /\ writes' = [writes EXCEPT ![p] = <<>>]
  /\ prev' = LastRun(p)
  /\ rerun' = FALSE
  /\ nruns' = nruns + 1
  /\ UNCHANGED <<meetings, scorer, collect, retry, run, minutes,
                 Leaderboard, Leaderboard_all, Leaderboard_predict, items>>

\* items = await get_all_leaderboard_items(), then the grouping, the
\* per-region forecast and the ranking, up to the call of upsert_predictions.
ForecastGet(p) ==
  /\ pc[p] = "get_history"
  /\ \/ /\ Leaderboard_all # <<>>
        /\ \E batch \in PredictionBatches(Leaderboard_all) :
             /\ items' = [items EXCEPT ![p] = batch]
             /\ rerun' = (prev.kind = "Leaderboard_predict"
                            /\ prev.status \in {"done", "failed"}
                            /\ items[p] = batch)
        /\ pc' = [pc EXCEPT ![p] = "get"]
     \/ /\ Leaderboard_all = <<>>      \* max([]) raises ValueError
        /\ items' = [items EXCEPT ![p] = <<>>]
        /\ rerun' = FALSE
        /\ pc' = [pc EXCEPT ![p] = "raised"]
     \/ /\ items' = [items EXCEPT ![p] = <<>>]   \* the fetch failed: _get re-raises
        /\ rerun' = FALSE
        /\ pc' = [pc EXCEPT ![p] = "raised"]
  /\ UNCHANGED <<meetings, scorer, collect, retry, run, minutes,
                 Leaderboard, Leaderboard_all, Leaderboard_predict, kind,
                 fetch, existing_items, idx, writes, prev, nruns>>

\* ------------------------------------------------ sorting and ranking
\* What list.sort compares: a float total_score stands as the one-element
\* sequence of its value, a str total_score as the sequence of its code
\* points; both are compared place by place.
LexLess(a, b) ==
  \E k \in 1..(Len(a) + 1) :
    /\ \A i \in 1..(k - 1) : i <= Len(b) /\ a[i] = b[i]
    /\ k <= Len(b)
    /\ (k <= Len(a) => a[k] < b[k])

\* Place of x in a list sorted by key, descending: before the first element
\* with a smaller key, so behind every element with an equal key.
InsertDescTiesFirst(sorted, x) ==
  LET smaller == {i \in 1..Len(sorted) : ~LexLess(x.key, sorted[i].key)}
      k == IF smaller = {} THEN Len(sorted) + 1
           ELSE CHOOSE i \in smaller : \A j \in smaller : i <= j
  IN  SubSeq(sorted, 1, k - 1) \o <<x>> \o SubSeq(sorted, k, Len(sorted))

InsertDesc(sorted, x) ==
  LET smaller == {i \in 1..Len(sorted) : LexLess(sorted[i].key, x.key)}
      k == IF smaller = {} THEN Len(sorted) + 1
           ELSE CHOOSE i \in smaller : \A j \in smaller : i <= j
  IN  SubSeq(sorted, 1, k - 1) \o <<x>> \o SubSeq(sorted, k, Len(sorted))

\* list.sort(key=lambda x: x["total_score"], reverse=True): stable, equal
\* keys keep the order they had.
RECURSIVE SortDesc(_)
SortDesc(list) ==
  IF list = <<>> THEN <<>>
  ELSE InsertDesc(SortDesc(SubSeq(list, 1, Len(list) - 1)), list[Len(list)])

\* for idx, r in enumerate(results, start=1): r["Rank"] = idx
AssignRanksFromZero(list) ==
  [i \in 1..Len(list) |-> [list[i] EXCEPT !.Rank = i - 1]]

AssignRanks(list) == [i \in 1..Len(list) |-> [list[i] EXCEPT !.Rank = i]]

\* ------------------------------------------- the scoring run, region by region
\* total_score values a region can be given, in hundredths.
Scores == 0..MaxScore

\* reg_result: total_score is a float, Rank is None until the ranking.
ScoreResult(region, total) ==
  [Region_id |-> get_region_id(region), Region |-> region, total |-> total,
   key |-> <<total>>, Rank |-> 0]

\* What one pass of the region loop leaves in results: fetch_region_data
\* raised, or returned [] (empty or absent ResponseBody), or the scoring
\* raised, or reg_result was appended.
ResultsAfterZeroRow(results, outcome, row) ==
  IF outcome = "scored" THEN Append(results, row)
  ELSE IF outcome = "no_data"
    THEN Append(results, [row EXCEPT !.total = 0, !.key = <<0>>])
  ELSE results

ResultsAfter(results, outcome, row) ==
  IF outcome = "scored" THEN Append(results, row) ELSE results

\* What logger.exception is called for in the region loop.
IsError(outcome) == outcome \in {"fetch_raised", "score_raised", "train_raised"}

\* Where a pass of a region loop leaves the run: the try/except stands
\* inside the loop, so the next region follows whatever happened.
AfterRegionUpsertEach(loop, outcome, ri, n) == "get"

AfterRegionAbort(loop, outcome, ri, n) ==
  IF IsError(outcome) THEN "raised" ELSE IF ri < n THEN loop ELSE "rank"

AfterRegion(loop, outcome, ri, n) == IF ri < n THEN loop ELSE "rank"

\* What calculate_scores returns beside the list of region results: nothing,
\* "return results" and the controller wraps it as {"status", "scores"}.
NoSummary == [present |-> FALSE]

ReturnedSummary(log) == NoSummary

\* results = []; regions = REGIONS
ScoringStart(p) ==
  /\ pc[p] = "idle"
  /\ nruns < MaxRuns
  /\ \E month \in Periods :
       run' = [month |-> month, ri |-> 1, order |-> [i \in Regions |-> i],
               results |-> <<>>, log |-> [i \in Regions |-> "pending"],
               history |-> <<>>, fetched |-> FALSE]
  /\ kind' = [kind EXCEPT ![p] = "Leaderboard"]
  /\ pc' = [pc EXCEPT ![p] = "regions"]
  /\ items' = [items EXCEPT ![p] = <<>>]
  /\ fetch' = [fetch EXCEPT ![p] = "pending"]
  /\ existing_items' = [existing_items EXCEPT ![p] = <<>>]
  /\ idx' = [idx EXCEPT ![p] = 1]
  /\ writes' = [writes EXCEPT ![p] = <<>>]
  /\ prev' = LastRun(p)
  /\ rerun' = FALSE
  /\ nruns' = nruns + 1
  /\ UNCHANGED <<meetings, scorer, collect, retry, minutes,
                 Leaderboard, Leaderboard_all, Leaderboard_predict>>

\* One pass of "for region in regions".
ScoreRegion(p) ==
  /\ pc[p] = "regions"
  /\ run.ri <= Len(run.order)
  /\ \E outcome \in {"fetch_raised", "no_data", "score_raised", "scored"} :
     \E total \in Scores :
       /\ outcome # "scored" => total = 0
       /\ run' = [run EXCEPT
                    !.results = ResultsAfter(@, outcome,
                                  ScoreResult(REGIONS[run.order[run.ri]], total)),
                    !.log[run.ri] = outcome,
                    !.ri = @ + 1]
       /\ pc' = [pc EXCEPT ![p] =
                   AfterRegion("regions", outcome, run.ri, Len(run.order))]
  /\ UNCHANGED <<meetings, scorer, collect, retry, minutes,
                 Leaderboard, Leaderboard_all, Leaderboard_predict,
                 kind, items, fetch, existing_items, idx, writes, prev, rerun,
                 nruns>>

\* The sort, the ranks, and the call of upsert_leaderboard /
\* upsert_predictions with the ranked list.
RankResults(p) ==
  /\ pc[p] = "rank"
  /\ LET ranked == AssignRanks(SortDesc(run.results))
     IN  /\ run' = [run EXCEPT !.results = ranked]
         /\ items' = [items EXCEPT ![p] =
                        [i \in 1..Len(ranked) |->
                           Item(ranked[i].Region_id, ranked[i].Region,
                                run.month, ranked[i].Rank)]]
  /\ pc' = [pc EXCEPT ![p] = "get"]
  /\ UNCHANGED <<meetings, scorer, collect, retry, minutes,
                 Leaderboard, Leaderboard_all, Leaderboard_predict,
                 kind, fetch, existing_items, idx, writes, prev, rerun, nruns>>

\* ------------------------------------------ the forecast run, region by region
\* regions_map.items(): the Region_ids in the order they first appear.
RegionsOrder(hist) ==
  LET firsts == {i \in 1..Len(hist) :
                   \A j \in 1..(i - 1) : hist[j].Region_id # hist[i].Region_id}
  IN  [k \in 1..Cardinality(firsts) |->
         hist[CHOOSE i \in firsts :
                Cardinality({j \in firsts : j < i}) = k - 1].Region_id]

\* str() of a non-negative int, as code points.
RECURSIVE Digits(_)
Digits(n) ==
  IF n < 10 THEN <<48 + n>> ELSE Digits(n \div 10) \o <<48 + (n % 10)>>

\* f"{round(x, 2)}" for x given in hundredths: the sign, the integer part,
\* the point, and one or two decimals (the repr of a float drops a trailing
\* zero but never the first decimal): "9.5", "10.0", "-0.1", "0.25".
FormatScore(v) ==
  LET a == IF v < 0 THEN 0 - v ELSE v
      h == a % 100
  IN  (IF v < 0 THEN <<45>> ELSE <<>>) \o Digits(a \div 100) \o <<46>> \o
      (IF h % 10 = 0 THEN <<48 + (h \div 10)>>
       ELSE <<48 + (h \div 10), 48 + (h % 10)>>)

\* Predicted total_score values, in hundredths, that the external model can
\* return.
PredTotals == {0 - 20, 0 - 10, 25, 50, 950, 1000}

\* out: total_score is the formatted string, Rank is 0 until the ranking.
ForecastResult(region_id, total) ==
  [Region_id |-> region_id, Region |-> GOVERNORATE_FROM_REGION_ID[region_id],
   total |-> total, key |-> FormatScore(total), Rank |-> 0]

\* The one forecast run of a behaviour.
ForecastStart(p) == pc[p] = "idle" /\ PredictFutureScores(p)

\* items = await get_all_leaderboard_items(); latest_month, next_month; the
\* grouping by Region_id.
ForecastFetch(p) ==
  /\ pc[p] = "get_history"
  /\ \/ /\ Leaderboard_all # <<>>
        /\ run' = [month |-> LatestMonth(Leaderboard_all) + 1, ri |-> 1,
                   order |-> RegionsOrder(Leaderboard_all),
                   results |-> <<>>,
                   log |-> [i \in 1..Len(RegionsOrder(Leaderboard_all)) |->
                              "pending"],
                   history |-> Leaderboard_all, fetched |-> TRUE]
        /\ pc' = [pc EXCEPT ![p] = "train"]
     \/ /\ Leaderboard_all = <<>>      \* max([]) raises ValueError
        /\ run' = [run EXCEPT !.history = Leaderboard_all, !.fetched = TRUE]
        /\ pc' = [pc EXCEPT ![p] = "raised"]
     \/ /\ run' = run                  \* the fetch failed: _get re-raises
        /\ pc' = [pc EXCEPT ![p] = "raised"]
  /\ UNCHANGED <<meetings, scorer, collect, retry, minutes,
                 Leaderboard, Leaderboard_all, Leaderboard_predict,
                 kind, items, fetch, existing_items, idx, writes, prev, rerun,
                 nruns>>

\* One pass of "for region_id, records in regions_map.items()":
\* train_and_predict raises, or returns and out is appended.
ForecastRegion(p) ==
  /\ pc[p] = "train"
  /\ run.ri <= Len(run.order)
  /\ \E outcome \in {"train_raised", "predicted"} :
     \E total \in PredTotals :
       /\ outcome = "predicted" => run.order[run.ri] \in Forecastable(run.history)
       /\ outcome # "predicted" => total = CHOOSE t \in PredTotals : TRUE
       /\ run' = [run EXCEPT
                    !.results = IF outcome = "predicted"
                                  THEN Append(@, ForecastResult(
                                                   run.order[run.ri], total))
                                  ELSE @,
                    !.log[run.ri] = outcome,
                    !.ri = @ + 1]
       /\ pc' = [pc EXCEPT ![p] =
                   AfterRegion("train", outcome, run.ri, Len(run.order))]
  /\ UNCHANGED <<meetings, scorer, collect, retry, minutes,
                 Leaderboard, Leaderboard_all, Leaderboard_predict,
                 kind, items, fetch, existing_items, idx, writes, prev, rerun,
                 nruns>>

\* ------------------------------------------------- generate_minutes_score
\* A str is the sequence of its characters; a value handed to the scorer is
\* a str, a list of str, or neither (None).
TopK == 4

\* str.strip()
Strip(text) ==
  LET inked == {i \in 1..Len(text) : text[i] # " "}
  IN  IF inked = {} THEN <<>>
      ELSE SubSeq(text, CHOOSE i \in inked : \A j \in inked : i <= j,
                        CHOOSE i \in inked : \A j \in inked : i >= j)

\* topic = topic.strip() if isinstance(topic, str) else ""
CleanTopic(value) == IF value.type = "str" THEN Strip(value.val) ELSE <<>>

\* discussions = discussions.strip() if isinstance(discussions, str) else "":
\* a list is not a str.
CleanDiscussions(value) ==
  IF value.type = "str" THEN Strip(value.val) ELSE <<>>

\* if not topic or not discussions: return 0.0
ReturnsEarlyNever(topic, discussions) == FALSE

ReturnsEarly(topic, discussions) == topic = <<>> \/ discussions = <<>>

\* " ".join(discussions) on a str: its characters, a space between each two.
JoinChars(text) ==
  IF text = <<>> THEN <<>>
  ELSE [i \in 1..(2 * Len(text) - 1) |->
          IF i % 2 = 1 THEN text[(i + 1) \div 2] ELSE " "]

\* What Translator.translate can return for a text the service accepted:
\* the translated_text of the answer, or the text itself when the answer has
\* no such key.  For an empty text it returns "" without a request.
Translations(text) ==
  IF text = <<>> THEN {<<>>} ELSE {<<"[en]">> \o text, text}

RemoteCall(fn, query, documents, top_k) ==
  [fn |-> fn, query |-> query, documents |-> documents, top_k |-> top_k]

\* The lists of scores model.rank can return: at most top_k of them.
RankResults4 ==
  UNION {[1..n -> Scores] : n \in 0..TopK}

RECURSIVE SumOf(_)
SumOf(list) ==
  IF list = <<>> THEN 0 ELSE list[1] + SumOf(SubSeq(list, 2, Len(list)))

\* A returned float as a fraction: 0.0, or sum(scores) / len(results).
Zero == [sum |-> 0, n |-> 1]

Mean(list) == IF list = <<>> THEN Zero ELSE [sum |-> SumOf(list), n |-> Len(list)]

TopicValues ==
  {[type |-> "none", val |-> <<>>], [type |-> "str", val |-> <<>>],
   [type |-> "str", val |-> <<" ">>], [type |-> "str", val |-> <<"t">>],
   [type |-> "str", val |-> <<" ", "t", " ">>]}

DiscussionValues ==
  {[type |-> "none", val |-> <<>>], [type |-> "list", val |-> <<>>],
   [type |-> "list", val |-> <<<<"d">>>>],
   [type |-> "list", val |-> <<<<"d">>, <<"e">>>>],
   [type |-> "str", val |-> <<>>], [type |-> "str", val |-> <<" ">>],
   [type |-> "str", val |-> <<"d", "e">>]}

\* The call, the cleaning of both arguments and the early return.
GenerateMinutesScore ==
  /\ minutes.state = "none"
  /\ meetings.state = "open"
  /\ Len(meetings.item_scores) < meetings.n_items
  /\ \E t \in TopicValues : \E d \in DiscussionValues :
       minutes' = [minutes EXCEPT
                     !.in_topic = t, !.in_discussions = d,
                     !.topic = CleanTopic(t),
                     !.discussions = CleanDiscussions(d),
                     !.state = IF ReturnsEarly(CleanTopic(t), CleanDiscussions(d))
                                 THEN "returned" ELSE "translate_topic",
                     !.result = Zero]
  /\ UNCHANGED <<meetings, scorer, collect, retry, run,
                 Leaderboard, Leaderboard_all, Leaderboard_predict, pc,
                 kind, items, fetch, existing_items, idx, writes, prev, rerun,
                 nruns>>

\* except Exception as e: logger.exception(...); return 0.0 -- what a failed
\* translation, model load or ranking makes of the call.
ScorerFailureRaises(call) == [call EXCEPT !.state = "raised", !.failed = TRUE]

ScorerFailure(call) ==
  [call EXCEPT !.state = "returned", !.failed = TRUE, !.result = Zero]

\* One call of translator.translate inside the try: skipped for an empty
\* text, otherwise a request that answers or raises (the except returns 0.0).
AfterTranslate(text, field, to) ==
  IF text = <<>>
    THEN {[minutes EXCEPT ![field] = <<>>, !.state = to]}
    ELSE {[minutes EXCEPT
             ![field] = out, !.state = to,
             !.calls = Append(@, RemoteCall("translate", text, <<>>, 0))] :
            out \in Translations(text)}
         \cup
         {ScorerFailure([minutes EXCEPT
             !.calls = Append(@, RemoteCall("translate", text, <<>>, 0))])}

\* translated_topic = await translator.translate(topic) if topic else ""
TranslateTopic ==
  /\ minutes.state = "translate_topic"
  /\ minutes' \in AfterTranslate(minutes.topic, "translated_topic",
                                 "translate_discussion")
  /\ UNCHANGED <<meetings, scorer, collect, retry, run,
                 Leaderboard, Leaderboard_all, Leaderboard_predict, pc,
                 kind, items, fetch, existing_items, idx, writes, prev, rerun,
                 nruns>>

\* joined_discussion = " ".join(discussions) if discussions else "", and its
\* translation.
TranslateDiscussion ==
  /\ minutes.state = "translate_discussion"
  /\ minutes' \in AfterTranslate(JoinChars(minutes.discussions),
                                 "translated_discussion", "rank")
  /\ UNCHANGED <<meetings, scorer, collect, retry, run,
                 Leaderboard, Leaderboard_all, Leaderboard_predict, pc,
                 kind, items, fetch, existing_items, idx, writes, prev, rerun,
                 nruns>>

\* model.rank(translated_topic, translated_discussion,
\* return_documents=True, top_k=4) and the average; loading the model or
\* ranking can raise.
RankAndAverage ==
  /\ minutes.state = "rank"
  /\ \/ \E scores \in RankResults4 :
          minutes' = [minutes EXCEPT
                        !.state = "returned", !.scores = scores,
                        !.result = Mean(scores),
                        !.calls = Append(@, RemoteCall("rank",
                                     minutes.translated_topic,
                                     minutes.translated_discussion, TopK))]
     \/ minutes' = ScorerFailure([minutes EXCEPT
                      !.calls = Append(@, RemoteCall("rank",
                                   minutes.translated_topic,
                                   minutes.translated_discussion, TopK))])
  /\ UNCHANGED <<meetings, scorer, collect, retry, run,
                 Leaderboard, Leaderboard_all, Leaderboard_predict, pc,
                 kind, items, fetch, existing_items, idx, writes, prev, rerun,
                 nruns>>

\* ------------------------------------------- the loop over the meeting items
\* a/b + c/d and the average of a list of fractions; sums are kept in
\* lowest terms.
RECURSIVE GCD(_, _)
GCD(a, b) == IF b = 0 THEN a ELSE GCD(b, a % b)

Abs(a) == IF a < 0 THEN 0 - a ELSE a

Reduced(x) ==
  [sum |-> x.sum \div GCD(Abs(x.sum), x.n), n |-> x.n \div GCD(Abs(x.sum), x.n)]

AddFrac(x, y) ==
  Reduced([sum |-> x.sum * y.n + y.sum * x.n, n |-> x.n * y.n])

RECURSIVE SumFrac(_)
SumFrac(list) ==
  IF list = <<>> THEN Zero
  ELSE AddFrac(list[1], SumFrac(SubSeq(list, 2, Len(list))))

\* sum(meeting_item_scores) / len(meeting_item_scores) if meeting_item_scores
\* else 0.0
MeetingScore(list) ==
  IF list = <<>> THEN Zero
  ELSE [sum |-> SumFrac(list).sum, n |-> SumFrac(list).n * Len(list)]

\* meeting_items = it.get("meeting", []); meeting_item_scores = []
MeetingItems ==
  /\ meetings.state = "none"
  /\ \E n \in 0..MaxItems :
       meetings' = [meetings EXCEPT !.state = "open", !.n_items = n]
  /\ UNCHANGED <<storeVars, run, minutes, scorer, collect, retry>>

\* score = await generate_minutes_score(topic, discussions);
\* meeting_item_scores.append(score) -- or the exception of the scorer,
\* which leaves the loop for the handler of the region.
AppendItemScore ==
  /\ meetings.state = "open"
  /\ minutes.state \in {"returned", "raised"}
  /\ meetings' = IF minutes.state = "returned"
                   THEN [meetings EXCEPT
                           !.item_scores = Append(@, [failed |-> minutes.failed,
                                                      score |-> minutes.result])]
                   ELSE [meetings EXCEPT !.state = "raised"]
  /\ minutes' = NoCall
  /\ UNCHANGED <<storeVars, run, scorer, collect, retry>>

\* The end of "for m in meeting_items": meeting_scores.append(...)
AverageItems ==
  /\ meetings.state = "open"
  /\ minutes.state = "none"
  /\ Len(meetings.item_scores) = meetings.n_items
  /\ meetings' = [meetings EXCEPT
                    !.state = "averaged",
                    !.meeting_score =
                       MeetingScore([i \in 1..Len(meetings.item_scores) |->
                                       meetings.item_scores[i].score])]
  /\ UNCHANGED <<storeVars, run, minutes, scorer, collect, retry>>

\* ------------------------------------------------- the scoring arithmetic
\* The five categories in the order of the weighted sum: administrator,
\* sub_administrator, coordinator, member, gust; and their weights, in
\* tenths.
ParticipantWeights == <<3, 2, 2, 2, 1>>

Categories == 1..Len(ParticipantWeights)

\* A participants object: per category the present (ptd) and total (ttl)
\* count; <<>> stands for a missing or empty object.
Counts == 0..MaxCount

ParticipantsValues ==
  {<<>>} \cup [Categories -> [ptd : Counts, ttl : Counts]]

\* safe_get: int(d.get(k, 0)) if d else 0
SafeGet(participants, c, k) ==
  IF participants = <<>> THEN 0 ELSE participants[c][k]

\* ratio(ptd, ttl): (ptd / ttl) if ttl > 0 else 0.0
RatioUnguarded(ptd, ttl) == [sum |-> ptd, n |-> IF ttl > 0 THEN ttl ELSE 1]

Ratio(ptd, ttl) == IF ttl > 0 THEN [sum |-> ptd, n |-> ttl] ELSE Zero

\* x * w for a weight of w tenths.
Weighted(x, w) == [sum |-> x.sum * w, n |-> x.n * 10]

\* score = ratio(...) * 0.3 + ratio(...) * 0.2 + ... + ratio(...) * 0.1
calculate_participants_score(participants) ==
  SumFrac([c \in Categories |->
             Weighted(Ratio(SafeGet(participants, c, "ptd"),
                            SafeGet(participants, c, "ttl")),
                      ParticipantWeights[c])])

\* The weights of the overall score, in tenths.
PARTICIPANT_WEIGHT == 4

MEETING_WEIGHT == 4

TOPIC_WEIGHT == 2

\* topic_score = (total_topics - transferred_topics) / total_topics
\*               if total_topics else 0.0
TopicScoreClamped(total_topics, transferred_topics) ==
  IF total_topics # 0 /\ transferred_topics <= total_topics
    THEN [sum |-> total_topics - transferred_topics, n |-> total_topics]
    ELSE Zero

TopicScore(total_topics, transferred_topics) ==
  IF total_topics # 0
    THEN [sum |-> total_topics - transferred_topics, n |-> total_topics]
    ELSE Zero

\* overall = avg_participant_score * PARTICIPANT_WEIGHT
\*         + avg_meeting_score * MEETING_WEIGHT + topic_score * TOPIC_WEIGHT
OverallOtherWeights(participants_score, meeting_score, topic_score) ==
  SumFrac(<<Weighted(participants_score, 3), Weighted(meeting_score, 4),
            Weighted(topic_score, 3)>>)

Overall(participants_score, meeting_score, topic_score) ==
  SumFrac(<<Weighted(participants_score, PARTICIPANT_WEIGHT),
            Weighted(meeting_score, MEETING_WEIGHT),
            Weighted(topic_score, TOPIC_WEIGHT)>>)

\* float(f"{overall:.4f}") in ten-thousandths: the nearest multiple; a value
\* halfway between two goes to either, as its binary float lies on one side.
Round4(x) ==
  {k \in ((x.sum * 10000) \div x.n - 1)..((x.sum * 10000) \div x.n + 1) :
     /\ 2 * k * x.n - x.n <= 2 * x.sum * 10000
     /\ 2 * x.sum * 10000 <= 2 * k * x.n + x.n}

\* Averaged component scores a region can come with.
ComponentScores ==
  {Zero, [sum |-> 1, n |-> 2], [sum |-> 6, n |-> 10], [sum |-> 8, n |-> 10],
   [sum |-> 1, n |-> 1]}

\* The aggregation of one region: the topic counts, the topic score, the
\* overall score and the total_score of reg_result.
AggregateRegion ==
  /\ scorer.state = "none"
  /\ \E total_topics \in 0..MaxTopics :
     \E transferred_topics \in 0..MaxTopics :
     \E p \in ComponentScores : \E m \in ComponentScores :
       LET t == TopicScore(total_topics, transferred_topics)
       IN  \E rounded \in Round4(Overall(p, m, t)) :
             scorer' = [scorer EXCEPT
                          !.state = "aggregated",
                          !.total_topics = total_topics,
                          !.transferred_topics = transferred_topics,
                          !.participants_score = p,
                          !.meeting_score = m,
                          !.topic_score = t,
                          !.overall = Overall(p, m, t),
                          !.total_score = rounded]
  /\ UNCHANGED <<storeVars, run, minutes, meetings, collect, retry>>

\* One call of calculate_participants_score.
ScoreParticipants ==
  /\ scorer.state = "none"
  /\ \E participants \in ParticipantsValues :
       scorer' = [scorer EXCEPT
                    !.state = "participants",
                    !.participants = participants,
                    !.participants_score =
                       calculate_participants_score(participants)]
  /\ UNCHANGED <<storeVars, run, minutes, meetings, collect, retry>>

\* ---------------------------------------- collect_data_from_tanmiya_backend
\* Where the loop over the meetings of a region stands after a post: the
\* try/except around post_item stands inside the loop, so the next meeting
\* follows whatever the post did; after the last one, the next region.
AfterPostStopOnFailure(out, mi, n) ==
  IF out = "ok" /\ mi < n THEN "posting" ELSE "regions"

AfterPost(out, mi, n) == IF mi < n THEN "posting" ELSE "regions"

\* summary = {"posted": 0, "skipped": 0, "errors": []}
CollectStart ==
  /\ collect.state = "none"
  /\ collect' = [collect EXCEPT !.state = "regions", !.ri = 1]
  /\ UNCHANGED <<storeVars, run, minutes, meetings, scorer, retry>>

\* One pass of "for region in regions" up to the posting loop: the fetch
\* raises, or the body is empty or absent, or it holds meetings.
CollectFetch ==
  /\ collect.state = "regions"
  /\ collect.ri <= NRegions
  /\ \/ collect' = [collect EXCEPT
                      !.summary.errors = Append(@, REGIONS[collect.ri]),
                      !.log = Append(@, [outcome |-> "fetch_raised",
                                         body |-> 0, posts |-> <<>>]),
                      !.ri = @ + 1]
     \/ collect' = [collect EXCEPT
                      !.summary.skipped = @ + 1,
                      !.log = Append(@, [outcome |-> "no_data",
                                         body |-> 0, posts |-> <<>>]),
                      !.ri = @ + 1]
     \/ \E n \in 1..MaxItems :
          collect' = [collect EXCEPT
                        !.state = "posting", !.mi = 1, !.body = n,
                        !.log = Append(@, [outcome |-> "body",
                                           body |-> n, posts |-> <<>>])]
  /\ UNCHANGED <<storeVars, run, minutes, meetings, scorer, retry>>

\* One pass of "for meeting in response_body": post_item returns or raises;
\* or the meeting is malformed (a null date, an item that is no mapping) and
\* building its payload raises outside the inner try, which the except of
\* the region catches.
CollectPost ==
  /\ collect.state = "posting"
  /\ \/ \E out \in {"ok", "raised"} :
          collect' = [collect EXCEPT
                        !.summary.posted = IF out = "ok" THEN @ + 1 ELSE @,
                        !.summary.errors = IF out = "ok" THEN @
                                           ELSE Append(@, REGIONS[collect.ri]),
                        !.log[collect.ri].posts = Append(@, out),
                        !.state = AfterPost(out, collect.mi, collect.body),
                        !.mi = @ + 1,
                        !.ri = IF AfterPost(out, collect.mi, collect.body)
                                  = "regions" THEN @ + 1 ELSE @]
     \/ collect' = [collect EXCEPT
                      !.summary.errors = Append(@, REGIONS[collect.ri]),
                      !.log[collect.ri].outcome = "malformed",
                      !.state = "regions",
                      !.ri = @ + 1]
  /\ UNCHANGED <<storeVars, run, minutes, meetings, scorer, retry>>

\* return summary
CollectReturn ==
  /\ collect.state = "regions"
  /\ collect.ri > NRegions
  /\ collect' = [collect EXCEPT !.state = "returned"]
  /\ UNCHANGED <<storeVars, run, minutes, meetings, scorer, retry>>

\* ------------------------------------------------------------ _with_retries
\* The values of the keyword delay, in seconds, and the exceptions op raises.
Delays == {1, 2}

Exceptions == {"e1", "e2"}

\* if attempt == retries: ... raise
LastAttemptNever(attempt, retries) == attempt = retries + 1

LastAttempt(attempt, retries) == attempt = retries

\* wait_time = delay * attempt
wait_time(delay, attempt) == delay * attempt

\* _with_retries(func, retries=r, delay=d) is entered with a positive number
\* of attempts; the loop starts at attempt 1.
RetryStart ==
  /\ retry.state = "none"
  /\ \E r \in 1..MaxRetries, d \in Delays :
       retry' = [retry EXCEPT !.state = "calling", !.retries = r,
                              !.delay = d, !.attempt = 1]
  /\ UNCHANGED <<storeVars, run, minutes, meetings, scorer, collect>>

\* One "return await func(...)": it returns, or it raises and the handler
\* re-raises on the last attempt and computes the wait otherwise.
RetryCall ==
  /\ retry.state = "calling"
  /\ \/ retry' = [retry EXCEPT !.state = "returned", !.calls = @ + 1,
                                !.result = "value"]
     \/ \E e \in Exceptions :
          retry' = IF LastAttempt(retry.attempt, retry.retries)
                   THEN [retry EXCEPT !.state = "raised", !.calls = @ + 1,
                                      !.excs = Append(@, e), !.result = e]
                   ELSE [retry EXCEPT
                           !.state = "sleeping", !.calls = @ + 1,
                           !.excs = Append(@, e),
                           !.waits = Append(@, wait_time(retry.delay,
                                                         retry.attempt))]
  /\ UNCHANGED <<storeVars, run, minutes, meetings, scorer, collect>>

\* await asyncio.sleep(wait_time) ends and the loop goes on; a loop that
\* runs out of attempts falls off the end of the function, which returns None.
RetrySleep ==
  /\ retry.state = "sleeping"
  /\ retry' = IF retry.attempt < retry.retries
              THEN [retry EXCEPT !.state = "calling", !.attempt = @ + 1]
              ELSE [retry EXCEPT !.state = "returned", !.result = "None"]
  /\ UNCHANGED <<storeVars, run, minutes, meetings, scorer, collect>>

\* ------------------------------------------------------------ specifications
\* The history collection a deployment starts with: empty, or two earlier
\* periods of every region.  Both snapshot collections start empty.
SeedHistory ==
  [i \in 1..(2 * NRegions) |->
     [id |-> i, Region_id |-> ((i - 1) % NRegions) + 1,
      Region |-> REGIONS[((i - 1) % NRegions) + 1],
      month |-> ((i - 1) \div NRegions) + 1,
      Rank |-> ((i - 1) % NRegions) + 1]]

Init ==
  /\ Leaderboard = <<>>
  /\ Leaderboard_predict = <<>>
  /\ Leaderboard_all \in {<<>>, SeedHistory}
  /\ pc = [p \in Procs |-> "idle"]
  /\ kind = [p \in Procs |-> "Leaderboard"]
  /\ items = [p \in Procs |-> <<>>]
  /\ fetch = [p \in Procs |-> "pending"]
  /\ existing_items = [p \in Procs |-> <<>>]
  /\ idx = [p \in Procs |-> 1]
  /\ writes = [p \in Procs |-> <<>>]
  /\ prev = NoRun
  /\ rerun = FALSE
  /\ nruns = 0
  /\ run = NoLoop
  /\ minutes = NoCall
  /\ meetings = NoMeetings
  /\ scorer = NoScoring
  /\ collect = NoCollect
  /\ retry = NoRetry

\* Runs executed one at a time: a single worker.
Next ==
  \E p \in {MainProc} :
    \/ CalculateScores(p)
    \/ PredictFutureScores(p)
    \/ ForecastGet(p)
    \/ UpsertGet(p)
    \/ UpsertWrite(p)
    \/ HistoryAppend(p)

Spec == Init /\ [][Next]_vars

\* Two scoring runs, one per worker, whose HTTP calls interleave freely.
RaceStart(p) == pc[p] = "idle" /\ CalculateScores(p)

NextRace ==
  \E p \in Procs :
    \/ RaceStart(p)
    \/ UpsertGet(p)
    \/ UpsertWrite(p)
    \/ HistoryAppend(p)

SpecRace == Init /\ [][NextRace]_vars

\* One run followed region by region, on a store that earlier runs may have
\* filled: the snapshot may hold a record per region, and the history may
\* hold two periods of every region, or a single period of the last one.
SeedSnapshot ==
  [i \in 1..NRegions |->
     [id |-> i, Region_id |-> i, Region |-> REGIONS[i], month |-> 1,
      Rank |-> NRegions + 1 - i]]

ShortHistory == SubSeq(SeedHistory, 1, 2 * NRegions - 1)

InitDetail ==
  /\ Leaderboard \in {<<>>, SeedSnapshot}
  /\ Leaderboard_predict = <<>>
  /\ Leaderboard_all \in {<<>>, SeedHistory, ShortHistory}
  /\ pc = [p \in Procs |-> "idle"]
  /\ kind = [p \in Procs |-> "Leaderboard"]
  /\ items = [p \in Procs |-> <<>>]
  /\ fetch = [p \in Procs |-> "pending"]
  /\ existing_items = [p \in Procs |-> <<>>]
  /\ idx = [p \in Procs |-> 1]
  /\ writes = [p \in Procs |-> <<>>]
  /\ prev = NoRun
  /\ rerun = FALSE
  /\ nruns = 0
  /\ run = NoLoop
  /\ minutes = NoCall
  /\ meetings = NoMeetings
  /\ scorer = NoScoring
  /\ collect = NoCollect
  /\ retry = NoRetry

NextDetail ==
  \E p \in {MainProc} :
    \/ ScoringStart(p)
    \/ ScoreRegion(p)
    \/ ForecastStart(p)
    \/ ForecastFetch(p)
    \/ ForecastRegion(p)
    \/ RankResults(p)
    \/ UpsertGet(p)
    \/ UpsertWrite(p)
    \/ HistoryAppend(p)

SpecDetail == InitDetail /\ [][NextDetail]_vars

\* One call of generate_minutes_score.
NextMinutes ==
  \/ GenerateMinutesScore
  \/ TranslateTopic
  \/ TranslateDiscussion
  \/ RankAndAverage
  \/ MeetingItems
  \/ AppendItemScore
  \/ AverageItems

\* The scorer touches no collection: the store stays as it starts, empty.
InitMinutes == Init /\ Leaderboard_all = <<>>

\* One evaluation of the scoring arithmetic of a region.
NextScorer ==
  \/ ScoreParticipants
  \/ AggregateRegion

SpecScorer == InitMinutes /\ [][NextScorer]_vars

SpecMinutes == InitMinutes /\ [][NextMinutes]_vars

\* One run of the collection of meeting data.
NextCollect ==
  \/ CollectStart
  \/ CollectFetch
  \/ CollectPost
  \/ CollectReturn

SpecCollect == InitMinutes /\ [][NextCollect]_vars

\* One call of _with_retries.
NextRetry ==
  \/ RetryStart
  \/ RetryCall
  \/ RetrySleep

SpecRetry == InitMinutes /\ [][NextRetry]_vars

\* Every call of op and every sleep ends.
SpecRetryFair == SpecRetry /\ WF_vars(NextRetry)

\* -------------------------------------------------------------- properties
UniquePerRegion(coll) ==
  \A i, j \in 1..Len(coll) : i # j => coll[i].Region_id # coll[j].Region_id

RecordsFor(coll, rid) == {i \in 1..Len(coll) : coll[i].Region_id = rid}

\* The write calls a run has issued on its snapshot collection, in order.
SnapshotWrites(p) ==
  LET OnSnapshot(w) == w.coll = kind[p] IN SelectSeq(writes[p], OnSnapshot)

HistoryPosted(p, i) ==
  \E k \in 1..Len(writes[p]) :
    /\ writes[p][k].coll = "Leaderboard_all"
    /\ writes[p][k].op = "POST"
    /\ writes[p][k].i = i
    /\ writes[p][k].out = "ok"

\* C1: after any sequence of upsert_leaderboard runs executed one at a time
\* from an empty Leaderboard, each batch holding one record per Region_id at
\* most and any run possibly aborted by a failed write, the Leaderboard
\* collection holds at most one record per Region_id.
C1_OneSnapshotPerRegion == UniquePerRegion(Leaderboard)

\* A second run, after an aborted one, has patched and created.
C1_Witness ==
  /\ prev.kind = "Leaderboard" /\ prev.status = "failed"
  /\ kind[MainProc] = "Leaderboard" /\ pc[MainProc] = "done"
  /\ Len(Leaderboard) = NRegions
  /\ \E k \in 1..Len(writes[MainProc]) : writes[MainProc][k].op = "PATCH"
  /\ \E k \in 1..Len(writes[MainProc]) :
       writes[MainProc][k].op = "POST" /\ writes[MainProc][k].coll = "Leaderboard"

\* C2: every upsert_leaderboard run that completes creates one new
\* Leaderboard_all record for each record of its batch, whatever the two
\* collections already hold.
C2_HistoryAlwaysAppended ==
  \A p \in Procs :
    (kind[p] = "Leaderboard" /\ pc[p] = "done") =>
      \A i \in 1..Len(items[p]) : HistoryPosted(p, i)

\* C3: upserting the same batch twice in a row into an initially empty
\* snapshot collection leaves exactly one record per Region_id of the batch:
\* the first run created the records, the second run only patches.
C3_SecondRunOnlyPatches ==
  (/\ rerun /\ pc[MainProc] = "done"
   /\ prev.kind = kind[MainProc] /\ prev.status = "done" /\ prev.empty) =>
    LET coll == Collection(kind[MainProc])
        sw == SnapshotWrites(MainProc)
    IN  /\ \A i \in 1..Len(items[MainProc]) :
             Cardinality(RecordsFor(coll, items[MainProc][i].Region_id)) = 1
        /\ Len(coll) = Len(items[MainProc])
        /\ Len(sw) = Len(items[MainProc])
        /\ \A k \in 1..Len(sw) : sw[k].op = "PATCH"

C3_Witness ==
  /\ rerun /\ pc[MainProc] = "done"
  /\ prev.kind = kind[MainProc] /\ prev.status = "done" /\ prev.empty
  /\ Len(items[MainProc]) = NRegions

\* C4: when the create or the update of one record of the batch fails, the
\* create/update of every remaining record of the batch is still attempted.
C4_RemainingStillAttempted ==
  \A p \in Procs :
    (pc[p] \in {"done", "failed"} /\ fetch[p] = "ok") =>
      \A i \in 1..Len(items[p]) :
        \E k \in 1..Len(writes[p]) :
          writes[p][k].coll = kind[p] /\ writes[p][k].i = i

\* C5: in one upsert run each incoming record causes exactly one write on
\* the snapshot collection, the records being taken in order: a PATCH
\* addressed to the id of a fetched record with the incoming Region_id when
\* the fetch returned one, a POST otherwise (also when the fetch returned
\* nothing); a run that completes has written every record.
C5_OneWritePerRecord ==
  \A p \in Procs :
    LET sw == SnapshotWrites(p)
    IN  /\ Len(sw) <= Len(items[p])
        /\ (pc[p] = "done" => Len(sw) = Len(items[p]))
        /\ \A k \in 1..Len(sw) :
             LET hits == RecordsFor(existing_items[p], items[p][k].Region_id)
             IN  /\ sw[k].i = k
                 /\ IF hits # {}
                      THEN /\ sw[k].op = "PATCH"
                           /\ \E h \in hits : sw[k].id = existing_items[p][h].id
                      ELSE sw[k].op = "POST"

\* A PATCH whose address differs from the Region_id, and a POST in a run
\* whose fetch returned records.
C5_Witness ==
  LET sw == SnapshotWrites(MainProc)
  IN  /\ pc[MainProc] = "done"
      /\ existing_items[MainProc] # <<>>
      /\ \E k \in 1..Len(sw) :
           sw[k].op = "PATCH" /\ sw[k].id # items[MainProc][k].Region_id
      /\ \E k \in 1..Len(sw) : sw[k].op = "POST"

\* Worker p has issued a create on Leaderboard for region rid that reached
\* the store.
Created_by(p, rid) ==
  \E k \in 1..Len(writes[p]) :
    /\ writes[p][k].coll = "Leaderboard" /\ writes[p][k].op = "POST"
    /\ writes[p][k].out # "fail"
    /\ items[p][writes[p][k].i].Region_id = rid

\* C6: when two upsert runs on the same collection interleave so that both
\* fetch before either writes, two records with the same Region_id can come
\* to stand in the collection (C6_Witness is that state); and whenever the
\* Leaderboard holds two records of one Region_id, every one of them was
\* created by a run whose own fetch had returned no record of that region:
\* the duplicates are creates decided on a read that a concurrent write
\* had made stale.
C6_DuplicatesAreStaleCreates ==
  \A r \in Regions :
    Cardinality(RecordsFor(Leaderboard, r)) >= 2 =>
      /\ Cardinality(RecordsFor(Leaderboard, r)) = Cardinality(Procs)
      /\ \A p \in Procs :
           /\ Created_by(p, r)
           /\ fetch[p] = "ok"
           /\ RecordsFor(existing_items[p], r) = {}

C6_Witness ==
  /\ \E r \in Regions : Cardinality(RecordsFor(Leaderboard, r)) >= 2
  /\ \A p \in Procs : fetch[p] = "ok" /\ existing_items[p] = <<>>

\* C7: if an upsert_leaderboard run is aborted after a prefix of its writes
\* and the same batch is re-run to completion, the Leaderboard ends with
\* exactly one record per Region_id of the batch, each carrying the batch's
\* values, and the re-run appends the batch to Leaderboard_all again.
C7_SnapshotRecovered ==
  (/\ rerun /\ pc[MainProc] = "done" /\ kind[MainProc] = "Leaderboard"
   /\ prev.kind = "Leaderboard" /\ prev.status = "failed") =>
    \A i \in 1..Len(items[MainProc]) :
      LET recs == RecordsFor(Leaderboard, items[MainProc][i].Region_id)
      IN  /\ Cardinality(recs) = 1
          /\ \A h \in recs : /\ Leaderboard[h].month = items[MainProc][i].month
                             /\ Leaderboard[h].Rank = items[MainProc][i].Rank

C7_RerunRecovers ==
  /\ C7_SnapshotRecovered
  /\ (/\ rerun /\ pc[MainProc] = "done" /\ kind[MainProc] = "Leaderboard"
      /\ prev.kind = "Leaderboard" /\ prev.status = "failed") =>
       \A i \in 1..Len(items[MainProc]) : HistoryPosted(MainProc, i)

\* C8: if the initial fetch of the target collection fails, the upsert run
\* issues no create and no update: the run is over with no write call.
C8_NoWriteAfterFailedFetch ==
  \A p \in Procs :
    fetch[p] = "error" => (writes[p] = <<>> /\ pc[p] = "failed")

\* The fetch failed for a batch of every region while the target held
\* records the batch would have updated.
C8_Witness ==
  /\ fetch[MainProc] = "error"
  /\ Len(items[MainProc]) = NRegions
  /\ Collection(kind[MainProc]) # <<>>

\* C9: no step updates or removes a Leaderboard_all record: every record of
\* the history is the same record, at the same place, in the next state.
C9_HistoryOnlyGrows ==
  [][/\ Len(Leaderboard_all') >= Len(Leaderboard_all)
     /\ \A i \in 1..Len(Leaderboard_all) :
          Leaderboard_all'[i] = Leaderboard_all[i]]_vars

\* A scoring run has appended to a history that held records of the same
\* regions.
C9_Witness ==
  /\ Len(Leaderboard_all) > Len(SeedHistory)
  /\ \E i \in 1..Len(SeedHistory) :
       Leaderboard_all[Len(Leaderboard_all)].Region_id = Leaderboard_all[i].Region_id

\* C10: after any sequence of upsert_predictions runs executed one at a time
\* from an empty Leaderboard_predict, the collection holds at most one record
\* per Region_id.
C10_OnePredictionPerRegion == UniquePerRegion(Leaderboard_predict)

\* A second forecast run has patched the predictions of the first.
C10_Witness ==
  /\ kind[MainProc] = "Leaderboard_predict" /\ pc[MainProc] = "done"
  /\ Len(Leaderboard_predict) = NRegions
  /\ Len(writes[MainProc]) = NRegions
  /\ \A k \in 1..Len(writes[MainProc]) : writes[MainProc][k].op = "PATCH"

\* The run of the main worker has returned its list: the region loop, the
\* ranking and the upsert (whether or not it raised) are over.
Returned(knd) ==
  /\ run # NoLoop
  /\ kind[MainProc] = knd
  /\ pc[MainProc] \in {"done", "failed"}

\* C11: the list a scoring run returns is in descending order of total_score,
\* regions with equal total_score stand in the order the region loop met
\* them, and Rank is the place in that order; scores 0.90, 0.66, 0.66, 0.30
\* of regions met in the order A, B, C, D give A, B, C, D the ranks 1, 2, 3, 4.
C11_SortedTiesInDiscoveryOrder ==
  /\ Returned("Leaderboard") =>
       \A i, j \in 1..Len(run.results) :
         i < j =>
           /\ run.results[i].total >= run.results[j].total
           /\ run.results[i].Rank < run.results[j].Rank
           /\ run.results[i].total = run.results[j].total =>
                get_region_id(run.results[i].Region)
                  < get_region_id(run.results[j].Region)
  /\ LET ex == AssignRanks(SortDesc(<<ScoreResult(REGIONS[1], 90),
                                      ScoreResult(REGIONS[2], 66),
                                      ScoreResult(REGIONS[3], 66),
                                      ScoreResult(REGIONS[4], 30)>>))
     IN  /\ [i \in 1..4 |-> ex[i].Region_id] = <<1, 2, 3, 4>>
         /\ [i \in 1..4 |-> ex[i].Rank] = <<1, 2, 3, 4>>

\* A scoring run returned a list in which two regions have the same
\* total_score.
C11_Witness ==
  /\ Returned("Leaderboard")
  /\ \E i, j \in 1..Len(run.results) :
       i # j /\ run.results[i].total = run.results[j].total

\* C12: in the list a scoring run or a forecast run returns, and in the batch
\* it sent to the store, the Rank values of the n records are 1..n, each
\* once, whatever ranks the store or the records held before.
C12_RanksAreOneToN ==
  \A knd \in {"Leaderboard", "Leaderboard_predict"} :
    Returned(knd) =>
      /\ {run.results[i].Rank : i \in 1..Len(run.results)} = 1..Len(run.results)
      /\ Len(items[MainProc]) = Len(run.results)
      /\ {items[MainProc][i].Rank : i \in 1..Len(items[MainProc])}
           = 1..Len(run.results)

\* A scoring run ranked every region anew over a snapshot that stored the
\* regions in the opposite order.
C12_Witness ==
  /\ Returned("Leaderboard")
  /\ existing_items[MainProc] = SeedSnapshot
  /\ Len(run.results) = NRegions
  /\ \A i \in 1..Len(run.results) :
       run.results[i].Rank # SeedSnapshot[run.results[i].Region_id].Rank

\* C13: in the list a forecast run returns, a record whose predicted
\* total_score is numerically larger than another's has the strictly smaller
\* Rank.
C13_LargerPredictionRanksFirst ==
  Returned("Leaderboard_predict") =>
    \A i, j \in 1..Len(run.results) :
      run.results[i].total > run.results[j].total =>
        run.results[i].Rank < run.results[j].Rank

\* The places of the region loop that ended with the given outcomes.
PlacesWith(outcomes) ==
  {i \in 1..Len(run.log) : run.log[i] \in outcomes}

\* The region met at place i of the loop has a record in the returned list
\* and in the batch handed to the store.
InResults(i) ==
  \E k \in 1..Len(run.results) : run.results[k].Region_id = run.order[i]

InBatch(i) ==
  \E k \in 1..Len(items[MainProc]) :
    items[MainProc][k].Region_id = run.order[i]

\* C14: a region for which fetch_region_data found an empty or absent
\* ResponseBody has no record in the returned leaderboard nor in the batch
\* sent to the store, and the run neither logs an error for it nor raises.
C14_NoDataRegionIsSkipped ==
  (run # NoLoop /\ kind[MainProc] = "Leaderboard") =>
    /\ pc[MainProc] # "raised"
    /\ \A i \in PlacesWith({"no_data"}) :
         ~InResults(i) /\ ~InBatch(i) /\ ~IsError(run.log[i])

\* A scoring run returned after a region had no data and another was scored
\* and written.
C14_Witness ==
  /\ Returned("Leaderboard")
  /\ PlacesWith({"no_data"}) # {}
  /\ PlacesWith({"scored"}) # {}
  /\ writes[MainProc] # <<>>

\* C15: an exception while fetching or scoring a region does not abort the
\* scoring run: the run never raises, and when it returns every region has
\* been tried, the failing regions are absent, and every scored region is in
\* the returned list once, with a Rank of 1..n.
C15_RegionFailureDoesNotAbort ==
  (run # NoLoop /\ kind[MainProc] = "Leaderboard") =>
    /\ pc[MainProc] # "raised"
    /\ Returned("Leaderboard") =>
         /\ PlacesWith({"pending"}) = {}
         /\ \A i \in PlacesWith({"fetch_raised", "score_raised"}) :
              ~InResults(i) /\ ~InBatch(i)
         /\ \A i \in PlacesWith({"scored"}) :
              /\ Cardinality({k \in 1..Len(run.results) :
                                run.results[k].Region_id = run.order[i]}) = 1
              /\ InBatch(i)
         /\ \A k \in 1..Len(run.results) :
              run.results[k].Rank \in 1..Cardinality(PlacesWith({"scored"}))

\* A scoring run returned after the first region raised and a later one was
\* scored.
C15_Witness ==
  /\ Returned("Leaderboard")
  /\ run.log[1] \in {"fetch_raised", "score_raised"}
  /\ \E i \in PlacesWith({"scored"}) : i > 1

\* C16: the scoring run returns, with the ranked list, a summary whose
\* succeeded_count, skipped_count and errors account for every region: the
\* scored ones, the ones without data, and the ones that raised.
C16_SummaryAccountsForEveryRegion ==
  Returned("Leaderboard") =>
    LET summary == ReturnedSummary(run.log)
    IN  /\ summary.present
        /\ summary.succeeded_count = Cardinality(PlacesWith({"scored"}))
        /\ summary.skipped_count = Cardinality(PlacesWith({"no_data"}))
        /\ {e.region : e \in summary.errors}
             = {REGIONS[run.order[i]] :
                  i \in PlacesWith({"fetch_raised", "score_raised"})}

RecordsIn(coll) == {coll[i] : i \in 1..Len(coll)}

\* C18: a region id goes with one region name in every component: the name
\* a scoring run wrote into the records of a Region_id (Leaderboard,
\* Leaderboard_all) is the name a forecast run wrote into the record of that
\* Region_id (Leaderboard_predict).
C18_OneNamePerRegionId ==
  \A a \in RecordsIn(Leaderboard) \cup RecordsIn(Leaderboard_all) :
    \A b \in RecordsIn(Leaderboard_predict) :
      a.Region_id = b.Region_id => a.Region = b.Region

\* C19: for a topic that is not empty after trimming and a non-empty list of
\* discussion strings, when no translation and no model call fails,
\* generate_minutes_score has called the relevance model with the translated
\* topic as query, the translated discussion as document and top_k = 4, and
\* returns the mean of the scores the model returned.
C19_ListIsRankedAndAveraged ==
  (/\ minutes.state = "returned"
   /\ minutes.in_topic.type = "str" /\ Strip(minutes.in_topic.val) # <<>>
   /\ minutes.in_discussions.type = "list"
   /\ minutes.in_discussions.val # <<>>
   /\ ~minutes.failed) =>
    /\ \E k \in 1..Len(minutes.calls) :
         /\ minutes.calls[k].fn = "rank"
         /\ minutes.calls[k].query \in Translations(Strip(minutes.in_topic.val))
         /\ minutes.calls[k].documents # <<>>
         /\ minutes.calls[k].top_k = TopK
    /\ minutes.result = Mean(minutes.scores)

\* C20: generate_minutes_score returns 0.0 and has made no call to the
\* translator or the relevance model when the topic is empty after trimming
\* or the discussion list is empty.
C20_EmptyInputReturnsZeroNoCalls ==
  (/\ minutes.state # "none"
   /\ \/ CleanTopic(minutes.in_topic) = <<>>
      \/ minutes.in_discussions = [type |-> "list", val |-> <<>>]) =>
    /\ minutes.state = "returned"
    /\ minutes.result = Zero
    /\ minutes.calls = <<>>

\* The scorer returned for a blank topic handed in with a discussion text
\* that would otherwise be translated and ranked.
C20_Witness ==
  /\ minutes.state = "returned"
  /\ minutes.in_topic = [type |-> "str", val |-> <<" ">>]
  /\ minutes.in_discussions = [type |-> "str", val |-> <<"d", "e">>]

\* C21: a failure of the translator or of the relevance model while one
\* meeting item is scored gives that item the score 0.0 and raises nothing:
\* neither the scorer nor the loop over the meeting items is left by an
\* exception, and the loop ends with a score for each meeting item.
C21_ScorerFailureIsZeroForThatItem ==
  /\ minutes.state # "raised"
  /\ meetings.state # "raised"
  /\ minutes.failed => (minutes.state = "returned" /\ minutes.result = Zero)
  /\ \A i \in 1..Len(meetings.item_scores) :
       meetings.item_scores[i].failed => meetings.item_scores[i].score = Zero
  /\ meetings.state = "averaged" =>
       Len(meetings.item_scores) = meetings.n_items

\* The loop ended after the scorer failed on one meeting item and gave a
\* later one a positive score.
C21_Witness ==
  /\ meetings.state = "averaged"
  /\ \E i, j \in 1..Len(meetings.item_scores) :
       /\ i < j
       /\ meetings.item_scores[i].failed
       /\ ~meetings.item_scores[j].failed
       /\ meetings.item_scores[j].score.sum > 0

\* Equality and order of two fractions with positive denominators.
FracEq(x, y) == x.sum * y.n = y.sum * x.n

FracLeq(x, y) == x.sum * y.n <= y.sum * x.n

\* The total of category c, or 1 when the category has no total; and the
\* product of these over the categories 1..c.
TotalOrOne(participants, c) ==
  IF SafeGet(participants, c, "ttl") > 0
    THEN SafeGet(participants, c, "ttl") ELSE 1

RECURSIVE TotalsProduct(_, _)
TotalsProduct(participants, c) ==
  IF c = 0 THEN 1
  ELSE TotalOrOne(participants, c) * TotalsProduct(participants, c - 1)

\* The weighted sum of the present/total ratios over the common denominator
\* 10 * (product of the totals), a category without total adding nothing.
RECURSIVE WeightedPresent(_, _)
WeightedPresent(participants, c) ==
  IF c = 0 THEN 0
  ELSE WeightedPresent(participants, c - 1)
       + (IF SafeGet(participants, c, "ttl") > 0
            THEN <<3, 2, 2, 2, 1>>[c] * SafeGet(participants, c, "ptd")
                 * (TotalsProduct(participants, 5)
                      \div SafeGet(participants, c, "ttl"))
            ELSE 0)

\* C22: calculate_participants_score returns the sum of present/total over
\* the five categories weighted 0.3, 0.2, 0.2, 0.2, 0.1, a category whose
\* total is 0 adding 0; it is exactly 0 when every total is 0, and within
\* [0, 1] when present <= total in every category.
C22_ParticipantsScoreIsWeightedRatioSum ==
  scorer.state = "participants" =>
    LET q == scorer.participants
        score == scorer.participants_score
    IN  /\ score.n > 0
        /\ FracEq(score, [sum |-> WeightedPresent(q, 5),
                          n |-> 10 * TotalsProduct(q, 5)])
        /\ (\A c \in 1..5 : SafeGet(q, c, "ttl") = 0) => score.sum = 0
        /\ (\A c \in 1..5 : SafeGet(q, c, "ptd") <= SafeGet(q, c, "ttl")) =>
             (FracLeq(Zero, score) /\ FracLeq(score, [sum |-> 1, n |-> 1]))

\* A participants object with a category that has attendees but no total,
\* and a score strictly between 0 and 1.
C22_Witness ==
  /\ scorer.state = "participants"
  /\ scorer.participants # <<>>
  /\ \E c \in 1..5 :
       scorer.participants[c].ttl = 0 /\ scorer.participants[c].ptd > 0
  /\ scorer.participants_score.sum > 0
  /\ scorer.participants_score.sum < scorer.participants_score.n

\* C23: the topic score is (total_topics - transferred_topics) / total_topics
\* when total_topics > 0 and 0 when total_topics = 0 (10 and 3 give 0.7);
\* with transferred_topics > total_topics it is negative and enters the
\* overall score as it is, the overall score then lying below the sum of the
\* two other weighted components.
C23_TopicScorePassedThrough ==
  /\ scorer.state = "aggregated" =>
       /\ scorer.total_topics > 0 =>
            scorer.topic_score.sum * scorer.total_topics
              = (scorer.total_topics - scorer.transferred_topics)
                  * scorer.topic_score.n
       /\ scorer.total_topics = 0 => scorer.topic_score.sum = 0
       /\ scorer.transferred_topics > scorer.total_topics
            /\ scorer.total_topics > 0 =>
            /\ scorer.topic_score.sum < 0
            /\ ~FracLeq(AddFrac(Weighted(scorer.participants_score, 4),
                                Weighted(scorer.meeting_score, 4)),
                        scorer.overall)
  /\ FracEq(TopicScore(10, 3), [sum |-> 7, n |-> 10])

\* A region with more transferred topics than topics was aggregated to a
\* negative overall score.
C23_Witness ==
  /\ scorer.state = "aggregated"
  /\ scorer.transferred_topics > scorer.total_topics
  /\ scorer.total_topics > 0
  /\ scorer.overall.sum < 0
  /\ scorer.total_score < 0

\* C24: the overall score is participants_score * 0.4 + meeting_score * 0.4
\* + topic_score * 0.2, the three weights summing to 1 (0.8, 0.6 and 0.5 give
\* 0.66), and total_score is that value to four decimals.
C24_OverallIsWeightedSum ==
  /\ scorer.state = "aggregated" =>
       LET p == scorer.participants_score
           m == scorer.meeting_score
           t == scorer.topic_score
       IN  /\ scorer.overall.n > 0
           /\ scorer.overall.sum * (10 * p.n * m.n * t.n)
                = (4 * p.sum * m.n * t.n + 4 * m.sum * p.n * t.n
                     + 2 * t.sum * p.n * m.n) * scorer.overall.n
           /\ scorer.total_score \in Round4(scorer.overall)
  /\ PARTICIPANT_WEIGHT + MEETING_WEIGHT + TOPIC_WEIGHT = 10
  /\ FracEq(Overall([sum |-> 8, n |-> 10], [sum |-> 6, n |-> 10],
                    [sum |-> 5, n |-> 10]),
            [sum |-> 66, n |-> 100])
  /\ Round4(Overall([sum |-> 8, n |-> 10], [sum |-> 6, n |-> 10],
                    [sum |-> 5, n |-> 10])) = {6600}

\* A region was aggregated from three different positive component scores.
C24_Witness ==
  /\ scorer.state = "aggregated"
  /\ scorer.participants_score = [sum |-> 8, n |-> 10]
  /\ scorer.meeting_score = [sum |-> 6, n |-> 10]
  /\ scorer.topic_score = [sum |-> 1, n |-> 2]
  /\ scorer.total_score = 6600

\* The store has been read or written by the scoring run of the main worker.
StoreTouched == fetch[MainProc] # "pending" \/ writes[MainProc] # <<>>

\* C25: a scoring run reads or writes the store only after every region has
\* been tried and the results ranked: from the fetch on, the batch holds the
\* ranked results, each with a Rank of 1..n; the Leaderboard collection is
\* fetched before the first write, and once fetched it is not fetched again
\* by the same run.
C25_StoreOnlyAfterRanking ==
  [][/\ (run' # NoLoop /\ kind'[MainProc] = "Leaderboard" /\ StoreTouched') =>
          /\ \A i \in 1..Len(run'.log) : run'.log[i] # "pending"
          /\ Len(items'[MainProc]) = Len(run'.results)
          /\ \A k \in 1..Len(items'[MainProc]) :
               /\ items'[MainProc][k].Rank = k
               /\ items'[MainProc][k].Region_id = run'.results[k].Region_id
          /\ writes'[MainProc] # <<>> => fetch'[MainProc] = "ok"
     /\ (fetch[MainProc] # "pending" /\ nruns' = nruns) =>
          /\ fetch'[MainProc] = fetch[MainProc]
          /\ existing_items'[MainProc] = existing_items[MainProc]]_vars

\* A scoring run fetched a non-empty Leaderboard once and then wrote a ranked
\* record of every region.
C25_Witness ==
  /\ Returned("Leaderboard")
  /\ fetch[MainProc] = "ok"
  /\ existing_items[MainProc] # <<>>
  /\ Len(writes[MainProc]) = NRegions
  /\ Len(run.results) = NRegions

\* The posts of the collection run, region by region, that had the given
\* outcome.
RECURSIVE PostsWith(_, _)
PostsWith(out, r) ==
  IF r = 0 THEN 0
  ELSE PostsWith(out, r - 1)
       + Cardinality({k \in 1..Len(collect.log[r].posts) :
                        collect.log[r].posts[k] = out})

RegionsWith(outcome) ==
  {r \in 1..Len(collect.log) : collect.log[r].outcome = outcome}

\* C26: collect_data_from_tanmiya_backend returns its summary whatever
\* fails: every region is tried, every meeting of a well-formed body is
\* posted whether or not an earlier post failed, posted counts the posts that
\* returned, skipped the regions with an empty or absent body, and errors
\* holds one entry per failed fetch, per malformed body and per failed post.
C26_CollectAlwaysReturnsSummary ==
  collect.state = "returned" =>
    /\ Len(collect.log) = NRegions
    /\ \A r \in RegionsWith("body") :
         Len(collect.log[r].posts) = collect.log[r].body
    /\ collect.summary.posted = PostsWith("ok", NRegions)
    /\ collect.summary.skipped = Cardinality(RegionsWith("no_data"))
    /\ Len(collect.summary.errors)
         = Cardinality(RegionsWith("fetch_raised"))
           + Cardinality(RegionsWith("malformed"))
           + PostsWith("raised", NRegions)

\* The run returned after a failed fetch, a skipped region or a post that
\* failed before another of the same region succeeded.
C26_Witness ==
  /\ collect.state = "returned"
  /\ RegionsWith("fetch_raised") \cup RegionsWith("no_data") # {}
  /\ \E r \in RegionsWith("body") :
       /\ Len(collect.log[r].posts) >= 2
       /\ collect.log[r].posts[1] = "raised"
       /\ collect.log[r].posts[2] = "ok"

\* C27: the waits of _with_retries grow exponentially with the attempt
\* number: each wait is longer than the one before, by the same factor.
C27_BackoffIsExponential ==
  /\ \A k \in 1..(Len(retry.waits) - 1) : retry.waits[k + 1] > retry.waits[k]
  /\ \A k \in 2..(Len(retry.waits) - 1) :
       retry.waits[k] * retry.waits[k]
         = retry.waits[k - 1] * retry.waits[k + 1]

\* What holds at every point of a call of _with_retries.
RetryBounded ==
  /\ retry.calls <= retry.retries
  /\ retry.state = "returned" =>
       /\ retry.result = "value"
       /\ retry.calls = Len(retry.excs) + 1
       /\ Len(retry.waits) = Len(retry.excs)
  /\ retry.state = "raised" =>
       /\ retry.calls = retry.retries
       /\ Len(retry.excs) = retry.retries
       /\ retry.result = retry.excs[retry.retries]
       /\ Len(retry.waits) = retry.retries - 1

\* C30: _with_retries calls op at most `retries` times; it returns the
\* first success with no further attempt; after `retries` failures it
\* re-raises the last exception without another sleep; and when every call
\* of op and every sleep ends, the call ends, returning or raising.
C30_AtMostRetriesAttemptsThenReraise ==
  /\ []RetryBounded
  /\ <>[](retry.state \in {"returned", "raised"})

\* Every attempt failed: the last exception was re-raised after `retries`
\* calls, more than one, with a sleep between them.
C30_Witness ==
  /\ retry.state = "raised"
  /\ retry.retries >= 3
  /\ retry.calls = retry.retries
  /\ retry.excs[retry.retries] # retry.excs[1]

\* C28: after a sequence of scoring runs that all completed, with every
\* store call answered, no two records of Leaderboard carry the same Rank,
\* whichever regions had data in which run.
C28_SnapshotRanksDistinct ==
  ( /\ pc[MainProc] = "done"
    /\ kind[MainProc] = "Leaderboard"
    /\ prev.kind \in {"none", "Leaderboard"}
    /\ prev.status \in {"none", "done"}
    /\ nruns <= 2 )
  => \A i, j \in 1..Len(Leaderboard) :
       i # j => Leaderboard[i].Rank # Leaderboard[j].Rank

\* C29: a forecast run whose fetch of Leaderboard_all returned no record
\* does not raise: it returns an empty list and writes nothing to
\* Leaderboard_predict.
C29_EmptyHistoryReturnsEmptyList ==
  ( /\ kind[MainProc] = "Leaderboard_predict"
    /\ run.fetched
    /\ run.history = <<>> )
  => /\ pc[MainProc] # "raised"
     /\ run.results = <<>>
     /\ writes[MainProc] = <<>>

============================================================================
